---------------------------- MODULE Spec2Model ----------------------------
(***************************************************************************)
(* Model of ops-swarm: the approval-gated incident workflow.               *)
(*                                                                         *)
(*   src/src/graph.py      diagnose_node, plan_node, execute_node and the  *)
(*                         compiled graph diagnose -> plan -> execute      *)
(*   src/src/state.py      IncidentContext, AgentState                     *)
(*   src/src/mcp_client.py execute_tool (the tool gateway)                 *)
(*   src/src/mcp_server.py the three tools                                 *)
(*   src/app.py            the Streamlit session driver and the manual     *)
(*                         operator console                                *)
(*                                                                         *)
(* Texts are sequences: operator input is a sequence of characters, every  *)
(* other text (diagnosis, proposal, tool output) a sequence of words, so   *)
(* that substring tests, strip() and split() are computed, not assumed.    *)
(* An Optional[str] field is a record [set, text]; set = FALSE is None.    *)
(***************************************************************************)
EXTENDS Integers, Sequences, FiniteSets, TLC

VARIABLES
    incident_active,   \* st.session_state.incident_active
    app_state,         \* TRUE iff st.session_state.app_state is not None
    messages,          \* app_state["messages"], the operations log
    require_approval,  \* app_state["require_approval"]
    ctx,               \* the IncidentContext object (shared by reference)
    pc,                \* position of the running invocation
    run,               \* what is running: initial / resume / engine / node
    outcome,           \* how the last invocation ended
    chan,              \* the state dict the running nodes mutate
    calls,             \* gateway calls made by the current invocation
    asks,              \* oracle calls made by the current invocation
    pre,               \* the state the current invocation started from
    reducer,           \* how the graph merges a node's returned messages
    resumes,           \* approvals given on the current incident
    op_count,          \* operator inputs handled on the current incident
    op_text,           \* last operator input
    op_blocked         \* its Safety Guard classification

vars == <<incident_active, app_state, messages, require_approval, ctx, pc, run,
          outcome, chan, calls, asks, pre, reducer, resumes, op_count,
          op_text, op_blocked>>

-----------------------------------------------------------------------------
(* Bounds *)

MaxResumes == 1
MaxOps == 1
GuardLen == 4
MaxNodeLog == 1

-----------------------------------------------------------------------------
(* Texts *)

None == [set |-> FALSE, text |-> <<>>]
Some(t) == [set |-> TRUE, text |-> t]

\* Python truthiness of an Optional[str]: None and "" are falsy.
truthy(o) == o.set /\ o.text # <<>>

Whitespace == {" "}

RECURSIVE lstrip(_)
lstrip(t) ==
    IF t # <<>> /\ Head(t) \in Whitespace THEN lstrip(Tail(t)) ELSE t

RECURSIVE rstrip(_)
rstrip(t) ==
    IF t # <<>> /\ t[Len(t)] \in Whitespace
    THEN rstrip(SubSeq(t, 1, Len(t) - 1))
    ELSE t

strip(t) == lstrip(rstrip(t))

\* needle in hay, for sequences (Python's substring test).
contains(hay, needle) ==
    \E i \in 1..(Len(hay) - Len(needle) + 1) :
        SubSeq(hay, i, i + Len(needle) - 1) = needle

\* hay.split(<<w>>)[-1]: what follows the last occurrence of the word w.
after_last(hay, w) ==
    LET at == {i \in 1..Len(hay) : hay[i] = w}
        last == CHOOSE i \in at : \A j \in at : j <= i
    IN  IF at = {} THEN hay ELSE SubSeq(hay, last + 1, Len(hay))


-----------------------------------------------------------------------------
(* The tool gateway: src/src/mcp_server.py and src/src/mcp_client.py *)

check_db_status(shard_id) ==
    IF shard_id = <<"DB_SHARD_04">>
    THEN <<"STATUS:", "OFFLINE.">>
    ELSE <<"STATUS:", "ONLINE.">>

restart_resource(resource_id) ==
    <<"SUCCESS:", "Resource">> \o resource_id \o <<"restarted.">>

fetch_service_logs(service_name) ==
    IF service_name = <<"payment_gateway">>
    THEN <<"[ERROR]", "Connection", "Refused:", "DB_SHARD_04">>
    ELSE IF service_name = <<"auth_service">>
    THEN <<"[INFO]", "Health", "Check:", "OK">>
    ELSE <<"[ERROR]", "Service">> \o service_name \o <<"not", "found.">>

\* A gateway client that hides a failure behind the tool's usual answer.
execute_tool_masked(tool_name, argument, up) ==
    IF tool_name = "check_db_status" THEN check_db_status(argument)
    ELSE IF tool_name = "restart_resource" THEN restart_resource(argument)
    ELSE fetch_service_logs(argument)

\* execute_tool never raises: every failure of the transport or of the remote
\* tool is caught and comes back as an ordinary text. up = FALSE is a failure.
execute_tool(tool_name, argument, up) ==
    IF ~up
    THEN <<"MCP", "Client", "Error:", tool_name>>
    ELSE IF tool_name = "check_db_status" THEN check_db_status(argument)
    ELSE IF tool_name = "restart_resource" THEN restart_resource(argument)
    ELSE fetch_service_logs(argument)

\* One entry of the call history.
Call(node, tool_name, argument, up, status) ==
    [node |-> node, tool |-> tool_name, arg |-> argument, up |-> up,
     status |-> status]

-----------------------------------------------------------------------------
(* The stages: src/src/graph.py.  s is the AgentState a node receives:     *)
(* [messages, require_approval, diagnosis, proposed_action, action_status] *)

Msg(kind, text) == [kind |-> kind, text |-> text]

BlockedMsg == Msg("Blocked", <<"Waiting", "for", "Human", "Approval.">>)
UnknownMsg == Msg("Unknown", <<"Unknown", "action", "type.">>)

\* A diagnosis stage that starts the log over instead of appending to it.
diagnose_node_rewrite(s, response) ==
    [s EXCEPT !.diagnosis = Some(response),
              !.messages = <<Msg("Diagnosis", response)>>]

diagnose_node(s, response) ==
    [s EXCEPT !.diagnosis = Some(response),
              !.messages = Append(@, Msg("Diagnosis", response))]

\* A plan stage that forgets to raise the human-in-the-loop signal.
plan_node_silent(s, tool_result, response) ==
    LET proposal == strip(response)
    IN  [s EXCEPT !.proposed_action = Some(proposal),
                  !.messages = @ \o <<Msg("Proposed", proposal),
                                      Msg("Status", tool_result)>>,
                  !.action_status = "PENDING"]

\* A plan stage that passes an APPROVED record through untouched.
plan_node_skips(s, tool_result, response) ==
    LET proposal == strip(response)
    IN  IF s.action_status = "APPROVED"
        THEN s
        ELSE [s EXCEPT !.proposed_action = Some(proposal),
                       !.messages = @ \o <<Msg("Proposed", proposal),
                                           Msg("Status", tool_result)>>,
                       !.require_approval = TRUE,
                       !.action_status = "PENDING"]

plan_node(s, tool_result, response) ==
    LET proposal == strip(response)
    IN  [s EXCEPT !.proposed_action = Some(proposal),
                  !.messages = @ \o <<Msg("Proposed", proposal),
                                      Msg("Status", tool_result)>>,
                  !.require_approval = TRUE,
                  !.action_status = "PENDING"]

\* A gate that refuses only the states it knows to be unapproved.
not_approved_known(action_status) == action_status \in {"PENDING", "REJECTED"}

\* The safety check of execute_node: TRUE when execution is refused.
not_approved(action_status) == action_status # "APPROVED"

\* "restart_resource" in proposal; on None the test raises TypeError.
names_restart(proposal) == contains(proposal.text, <<"restart_resource">>)

resource_of(proposal) == strip(after_last(proposal.text, "restart_resource"))

\* Whether execute_node reaches its execute_tool call, and with what argument.
execute_invokes(s) ==
    /\ ~not_approved(s.action_status)
    /\ s.proposed_action.set
    /\ names_restart(s.proposed_action)

\* An execute stage that refuses silently.
execute_node_mute(s, up) ==
    IF not_approved(s.action_status)
    THEN s
    ELSE IF ~s.proposed_action.set
    THEN [s EXCEPT !.messages = Append(@, Msg("Failed", <<"TypeError">>))]
    ELSE IF names_restart(s.proposed_action)
    THEN LET result == execute_tool("restart_resource",
                                    resource_of(s.proposed_action), up)
         IN  [s EXCEPT !.messages = Append(@, Msg("Success", result)),
                       !.action_status = "EXECUTED"]
    ELSE [s EXCEPT !.messages = Append(@, UnknownMsg)]

\* An execute stage that marks the record EXECUTED on every approved path.
execute_node_marks(s, up) ==
    IF not_approved(s.action_status)
    THEN [s EXCEPT !.messages = Append(@, BlockedMsg)]
    ELSE IF ~s.proposed_action.set
    THEN [s EXCEPT !.messages = Append(@, Msg("Failed", <<"TypeError">>))]
    ELSE IF names_restart(s.proposed_action)
    THEN LET result == execute_tool("restart_resource",
                                    resource_of(s.proposed_action), up)
         IN  [s EXCEPT !.messages = Append(@, Msg("Success", result)),
                       !.action_status = "EXECUTED"]
    ELSE [s EXCEPT !.messages = Append(@, UnknownMsg),
                   !.action_status = "EXECUTED"]

execute_node(s, up) ==
    IF not_approved(s.action_status)
    THEN [s EXCEPT !.messages = Append(@, BlockedMsg)]
    ELSE IF ~s.proposed_action.set
    THEN [s EXCEPT !.messages = Append(@, Msg("Failed", <<"TypeError">>))]
    ELSE IF names_restart(s.proposed_action)
    THEN LET result == execute_tool("restart_resource",
                                    resource_of(s.proposed_action), up)
         IN  [s EXCEPT !.messages = Append(@, Msg("Success", result)),
                       !.action_status = "EXECUTED"]
    ELSE [s EXCEPT !.messages = Append(@, UnknownMsg)]

-----------------------------------------------------------------------------
(* The Safety Guard of the manual operator console: src/app.py *)

Uppers == <<"A", "B", "C", "D", "E", "F", "G", "H", "I", "J", "K", "L", "M",
            "N", "O", "P", "Q", "R", "S", "T", "U", "V", "W", "X", "Y", "Z">>
Lowers == <<"a", "b", "c", "d", "e", "f", "g", "h", "i", "j", "k", "l", "m",
            "n", "o", "p", "q", "r", "s", "t", "u", "v", "w", "x", "y", "z">>

lower_char(c) ==
    IF \E i \in 1..Len(Uppers) : Uppers[i] = c
    THEN Lowers[CHOOSE i \in 1..Len(Uppers) : Uppers[i] = c]
    ELSE c

\* str.lower()
lower(text) == [i \in 1..Len(text) |-> lower_char(text[i])]

dangerous_keywords ==
    << <<"d", "e", "l", "e", "t", "e">>,
       <<"d", "e", "s", "t", "r", "o", "y">>,
       <<"d", "r", "o", "p">>,
       <<"r", "m", " ", "-", "r", "f">>,
       <<"w", "i", "p", "e">> >>

\* The denylist matched against the input as typed.
safety_guard_cased(user_override) ==
    \E k \in 1..Len(dangerous_keywords) :
        contains(user_override, dangerous_keywords[k])

\* any(word in user_override.lower() for word in dangerous_keywords)
safety_guard(user_override) ==
    \E k \in 1..Len(dangerous_keywords) :
        contains(lower(user_override), dangerous_keywords[k])

AlertMsg == Msg("Alert", <<"SECURITY ALERT">>)

\* A console that answers before it records what the operator said.
operator_console_swapped(log, user_override) ==
    IF safety_guard(user_override)
    THEN log \o <<AlertMsg, Msg("Operator", user_override)>>
    ELSE log \o <<Msg("Ack", user_override), Msg("Operator", user_override)>>

\* The messages one operator input appends to the log.
operator_console(log, user_override) ==
    LET said == Append(log, Msg("Operator", user_override))
    IN  IF safety_guard(user_override)
        THEN Append(said, AlertMsg)
        ELSE Append(said, Msg("Ack", user_override))

-----------------------------------------------------------------------------
(* What the collaborators can answer *)

\* llm.ainvoke in diagnose_node: the diagnosis text.
DiagnosisAnswers == { <<"DB_SHARD_04", "refused">>, <<"Auth", "latency">> }

\* llm.ainvoke in plan_node: the raw proposal, before strip().
ProposalAnswers ==
    { <<" ", "Action:", "restart_resource", "DB_SHARD_04", " ">>,
      <<"Action:", "fetch_service_logs", "payment_gateway">>,
      <<" ">> }

\* What an operator types into the console.
OperatorTexts ==
    { <<"c", "h", "e", "c", "k", " ", "s", "t", "a", "t", "u", "s">>,
      <<"p", "l", "e", "a", "s", "e", " ", "d", "r", "o", "p", " ", "t", "h",
        "e", " ", "d", "a", "t", "a", "b", "a", "s", "e">> }

-----------------------------------------------------------------------------
(* The session driver and the engine *)

\* IncidentContext(...) as built for a new incident.
initial_context ==
    [diagnosis |-> None, proposed_action |-> None, action_status |-> "PENDING"]

initial_inputs == [messages |-> <<>>, require_approval |-> FALSE]

\* The AgentState the running node sees.
AgentState ==
    [messages |-> chan.messages, require_approval |-> chan.require_approval,
     diagnosis |-> ctx.diagnosis, proposed_action |-> ctx.proposed_action,
     action_status |-> ctx.action_status]

context_of(s) ==
    [diagnosis |-> s.diagnosis, proposed_action |-> s.proposed_action,
     action_status |-> s.action_status]

\* messages: Annotated[List[str], operator.add].  A node appends to the list
\* it was handed and returns that same list, so under the reducer the channel
\* value and the update are one object.  Which merge the compiled graph
\* applies is the library's business: both outcomes are kept.
operator_add(current, update) ==
    IF reducer = "add" THEN current \o update ELSE update

\* The channels after a node returned s.
channels_after(s) ==
    [messages |-> IF run = "node" THEN s.messages
                  ELSE operator_add(s.messages, s.messages),
     require_approval |-> s.require_approval]

Snapshot(c, ch, entry) ==
    [entry |-> entry, diagnosis |-> c.diagnosis, proposed_action |-> c.proposed_action,
     action_status |-> c.action_status, messages |-> ch.messages,
     require_approval |-> ch.require_approval]

\* A graph with the edge diagnose -> execute: planning is left out.
next_node_skip(node) ==
    IF node = "diagnose" THEN "execute" ELSE "END"

\* The edges of build_graph: diagnose -> plan -> execute -> END.
next_node(node) ==
    IF node = "diagnose" THEN "plan"
    ELSE IF node = "plan" THEN "execute"
    ELSE "END"

\* Control after the node at pc returned with channels ch.
Returned(ch) ==
    LET to == IF run = "node" THEN "END" ELSE next_node(pc)
    IN  /\ chan' = ch
        /\ IF to = "END"
           THEN /\ pc' = "idle"
                /\ outcome' = "returned"
                /\ app_state' = TRUE
                /\ messages' = ch.messages
                /\ require_approval' = ch.require_approval
           ELSE /\ pc' = to
                /\ UNCHANGED <<outcome, app_state, messages, require_approval>>

\* A node that catches the oracle failure long enough to log it.
Raised_logged ==
    /\ pc' = "idle"
    /\ outcome' = "raised"
    /\ ctx' = IF run = "initial" THEN initial_context ELSE ctx
    /\ chan' = [chan EXCEPT !.messages =
                    Append(@, Msg("Failed", <<"OracleUnavailable">>))]
    /\ UNCHANGED <<app_state, messages, require_approval>>

\* An oracle failure is not caught by any node: it leaves the engine and the
\* driver's script run.  The context object keeps what was written to it.
Raised ==
    /\ pc' = "idle"
    /\ outcome' = "raised"
    /\ ctx' = IF run = "initial" THEN initial_context ELSE ctx
    /\ UNCHANGED <<chan, app_state, messages, require_approval>>

Diagnose ==
    /\ pc = "diagnose"
    /\ \E response \in DiagnosisAnswers :
          LET s == diagnose_node(AgentState, response)
          IN  /\ ctx' = context_of(s)
              /\ Returned(channels_after(s))
    /\ asks' = asks + 1
    /\ UNCHANGED <<incident_active, calls, pre, reducer, run, resumes,
                   op_count, op_text, op_blocked>>

DiagnoseRaises ==
    /\ pc = "diagnose"
    /\ Raised
    /\ asks' = asks + 1
    /\ UNCHANGED <<incident_active, calls, pre, reducer, run, resumes,
                   op_count, op_text, op_blocked>>

\* A plan stage whose one gateway call is the mutating tool.
StatusCheck_restart(up) ==
    Call("plan", "restart_resource", <<"DB_SHARD_04">>, up, ctx.action_status)

StatusCheck(up) ==
    Call("plan", "check_db_status", <<"DB_SHARD_04">>, up, ctx.action_status)

Plan ==
    /\ pc = "plan"
    /\ \E up \in BOOLEAN, response \in ProposalAnswers :
          LET tool_result ==
                  execute_tool("check_db_status", <<"DB_SHARD_04">>, up)
              s == plan_node(AgentState, tool_result, response)
          IN  /\ calls' = Append(calls, StatusCheck(up))
              /\ ctx' = context_of(s)
              /\ Returned(channels_after(s))
    /\ asks' = asks + 1
    /\ UNCHANGED <<incident_active, pre, reducer, run, resumes, op_count,
                   op_text, op_blocked>>

PlanRaises ==
    /\ pc = "plan"
    /\ \E up \in BOOLEAN : calls' = Append(calls, StatusCheck(up))
    /\ Raised
    /\ asks' = asks + 1
    /\ UNCHANGED <<incident_active, pre, reducer, run, resumes, op_count,
                   op_text, op_blocked>>

Execute ==
    /\ pc = "execute"
    /\ \E up \in BOOLEAN :
          LET s == execute_node(AgentState, up)
          IN  /\ calls' = IF execute_invokes(AgentState)
                          THEN Append(calls,
                                   Call("execute", "restart_resource",
                                        resource_of(ctx.proposed_action), up,
                                        ctx.action_status))
                          ELSE calls
              /\ ctx' = context_of(s)
              /\ Returned(channels_after(s))
    /\ UNCHANGED <<incident_active, asks, pre, reducer, run, resumes,
                   op_count, op_text, op_blocked>>

\* graph.ainvoke(input): the input is written to fresh channels.
Invoke(kind, c, input) ==
    /\ run' = kind
    /\ pc' = "diagnose"
    /\ outcome' = "none"
    /\ ctx' = c
    /\ chan' = input
    /\ calls' = <<>>
    /\ asks' = 0
    /\ pre' = Snapshot(c, input, "diagnose")

\* A first run that hands the engine the state the session still holds.
InitialRun_stale ==
    /\ Invoke("initial", ctx,
              [messages |-> messages, require_approval |-> require_approval])
    /\ app_state' = FALSE
    /\ UNCHANGED <<messages, require_approval>>
    /\ resumes' = 0
    /\ op_count' = 0

\* The script run that finds an active incident without agent state.
InitialRun ==
    /\ Invoke("initial", initial_context, initial_inputs)
    /\ app_state' = FALSE
    /\ messages' = <<>>
    /\ require_approval' = FALSE
    /\ resumes' = 0
    /\ op_count' = 0

Trigger ==
    /\ pc = "idle"
    /\ incident_active' = TRUE
    /\ InitialRun
    /\ UNCHANGED <<reducer, op_text, op_blocked>>

\* Any other rerun of the script while the first investigation has not
\* produced a state (it raised).
Rerun ==
    /\ pc = "idle"
    /\ incident_active
    /\ ~app_state
    /\ InitialRun
    /\ UNCHANGED <<incident_active, reducer, op_text, op_blocked>>

Reset ==
    /\ pc = "idle"
    /\ incident_active \/ app_state
    /\ incident_active' = FALSE
    /\ app_state' = FALSE
    /\ messages' = <<>>
    /\ require_approval' = FALSE
    /\ ctx' = initial_context
    /\ chan' = initial_inputs
    /\ run' = "none"
    /\ outcome' = "none"
    /\ UNCHANGED <<pc, calls, asks, pre, reducer, resumes, op_count, op_text,
                   op_blocked>>

\* Controls rendered for every pending record, with or without a proposal.
approval_controls_any ==
    /\ incident_active
    /\ app_state
    /\ ctx.action_status = "PENDING"

\* The approval controls are rendered under this condition.
approval_controls ==
    /\ incident_active
    /\ app_state
    /\ ctx.action_status = "PENDING"
    /\ truthy(ctx.proposed_action)

approved(c) == [c EXCEPT !.action_status = "APPROVED"]

Approve ==
    /\ pc = "idle"
    /\ approval_controls
    /\ resumes < MaxResumes
    /\ Invoke("resume", approved(ctx),
              [messages |-> messages, require_approval |-> require_approval])
    /\ resumes' = resumes + 1
    /\ UNCHANGED <<incident_active, app_state, messages, require_approval,
                   reducer, op_count, op_text, op_blocked>>

rejected(c) == c

Reject ==
    /\ pc = "idle"
    /\ approval_controls
    /\ incident_active' = FALSE
    /\ ctx' = rejected(ctx)
    /\ UNCHANGED <<app_state, messages, require_approval, pc, run, outcome,
                   chan, calls, asks, pre, reducer, resumes, op_count,
                   op_text, op_blocked>>

OperatorInput ==
    /\ pc = "idle"
    /\ incident_active
    /\ app_state
    /\ op_count < MaxOps
    /\ \E user_override \in OperatorTexts :
          /\ messages' = operator_console(messages, user_override)
          /\ op_text' = user_override
          /\ op_blocked' = safety_guard(user_override)
    /\ op_count' = op_count + 1
    /\ UNCHANGED <<incident_active, app_state, require_approval, ctx, pc, run,
                   outcome, chan, calls, asks, pre, reducer, resumes>>

Init ==
    /\ incident_active = FALSE
    /\ app_state = FALSE
    /\ messages = <<>>
    /\ require_approval = FALSE
    /\ ctx = initial_context
    /\ pc = "idle"
    /\ run = "none"
    /\ outcome = "none"
    /\ chan = initial_inputs
    /\ calls = <<>>
    /\ asks = 0
    /\ pre = Snapshot(initial_context, initial_inputs, "diagnose")
    /\ reducer \in {"last", "add"}
    /\ resumes = 0
    /\ op_count = 0
    /\ op_text = <<>>
    /\ op_blocked = FALSE

Next ==
    \/ Trigger
    \/ Rerun
    \/ Reset
    \/ Approve
    \/ Reject
    \/ OperatorInput
    \/ Diagnose
    \/ DiagnoseRaises
    \/ Plan
    \/ PlanRaises
    \/ Execute

Spec == Init /\ [][Next]_vars

-----------------------------------------------------------------------------
(* The stages and the engine on arbitrary records.  action_status is a     *)
(* plain str in IncidentContext, so a caller can hand a node any value.    *)

StatusValues == {"PENDING", "APPROVED", "REJECTED", "EXECUTED", "approved", ""}

NodeLogEntries ==
    { BlockedMsg,
      Msg("Diagnosis", <<"Auth", "latency">>),
      Msg("Success", restart_resource(<<"DB_SHARD_04">>)) }

RECURSIVE SeqsUpTo(_, _)
SeqsUpTo(S, n) ==
    IF n = 0 THEN { <<>> }
    ELSE LET shorter == SeqsUpTo(S, n - 1)
         IN  shorter \cup { Append(q, x) : q \in shorter, x \in S }

NodeLogs == SeqsUpTo(NodeLogEntries, MaxNodeLog)

NodeContexts ==
    [diagnosis : {None, Some(<<"DB_SHARD_04", "refused">>)},
     proposed_action : {None, Some(<<>>),
                        Some(<<"Action:", "restart_resource", "DB_SHARD_04">>),
                        Some(<<"Action:", "fetch_service_logs",
                               "payment_gateway">>)},
     action_status : StatusValues]

InitNode ==
    /\ run \in {"node", "engine"}
    /\ pc \in IF run = "engine" THEN {"diagnose"}
              ELSE {"diagnose", "plan", "execute"}
    /\ ctx \in NodeContexts
    /\ chan \in [messages : NodeLogs, require_approval : BOOLEAN]
    /\ messages = chan.messages
    /\ require_approval = chan.require_approval
    /\ pre = Snapshot(ctx, chan, pc)
    /\ incident_active = TRUE
    /\ app_state = TRUE
    /\ outcome = "none"
    /\ calls = <<>>
    /\ asks = 0
    /\ reducer \in {"last", "add"}
    /\ resumes = 0
    /\ op_count = 0
    /\ op_text = <<>>
    /\ op_blocked = FALSE

NextNode ==
    \/ Diagnose
    \/ DiagnoseRaises
    \/ Plan
    \/ PlanRaises
    \/ Execute

SpecNode == InitNode /\ [][NextNode]_vars

\* asyncio.run drives the invocation until it returns or raises: a stage
\* that can run does run.
SpecNodeFair == SpecNode /\ WF_vars(NextNode)

-----------------------------------------------------------------------------
(* The Safety Guard on arbitrary operator input *)

upper_char(c) ==
    IF \E i \in 1..Len(Lowers) : Lowers[i] = c
    THEN Uppers[CHOOSE i \in 1..Len(Lowers) : Lowers[i] = c]
    ELSE c

GuardAlphabet == {"d", "r", "o", "p", "D", "R", " "}

\* t with the letters at the positions of mask in upper case.
Cased(t, mask) ==
    [i \in 1..Len(t) |-> IF i \in mask THEN upper_char(t[i]) ELSE t[i]]

\* t without its i-th character.
Without(t, i) == SubSeq(t, 1, i - 1) \o SubSeq(t, i + 1, Len(t))

GuardPads == { <<>>, <<"x">>, <<" ", "a">> }

BenignTexts ==
    { <<"c", "h", "e", "c", "k", " ", "s", "t", "a", "t", "u", "s">>,
      <<"l", "i", "s", "t", " ", "s", "e", "r", "v", "i", "c", "e", "s">> }

GuardInputs ==
    LET tokens == { dangerous_keywords[k] : k \in 1..Len(dangerous_keywords) }
        cased == UNION { { Cased(t, mask) : mask \in SUBSET (1..Len(t)) } :
                         t \in tokens }
        near == UNION { { Without(t, i) : i \in 1..Len(t) } : t \in tokens }
    IN  SeqsUpTo(GuardAlphabet, GuardLen)
            \cup { a \o w \o b : a \in GuardPads, w \in cased \cup near,
                                 b \in GuardPads }
            \cup BenignTexts \cup OperatorTexts

InitGuard ==
    /\ run = "guard"
    /\ pc = "guard"
    /\ op_text \in GuardInputs
    /\ op_blocked = FALSE
    /\ incident_active = TRUE
    /\ app_state = TRUE
    /\ messages = <<>>
    /\ require_approval = FALSE
    /\ ctx = initial_context
    /\ chan = initial_inputs
    /\ pre = Snapshot(initial_context, initial_inputs, "diagnose")
    /\ outcome = "none"
    /\ calls = <<>>
    /\ asks = 0
    /\ reducer = "last"
    /\ resumes = 0
    /\ op_count = 0

\* The console handling the input op_text.
Classify ==
    /\ pc = "guard"
    /\ op_blocked' = safety_guard(op_text)
    /\ messages' = operator_console(messages, op_text)
    /\ op_count' = op_count + 1
    /\ pc' = "idle"
    /\ UNCHANGED <<incident_active, app_state, require_approval, ctx, run,
                   outcome, chan, calls, asks, pre, reducer, resumes, op_text>>

NextGuard == Classify

SpecGuard == InitGuard /\ [][NextGuard]_vars

-----------------------------------------------------------------------------
(* Properties *)

\* What a finished invocation is: it ran from pre and control is back.
Finished(kind) == run = kind /\ pc = "idle" /\ outcome = "returned"

ByExecute(c) == c.node = "execute"

Restarts == {i \in 1..Len(calls) : calls[i].tool = "restart_resource"}

\* C1: execute_node calls the gateway only if the action_status it reads is
\* APPROVED; with any other value, valid or not, a step of execute_node
\* leaves the call history as it was.
C1_ApprovalGate ==
    [][(pc = "execute" /\ calls' # calls)
          => ctx.action_status = "APPROVED"]_vars

\* execute_node, called on an approved record, has called restart_resource.
C1_Witness ==
    /\ run = "node"
    /\ pc = "idle"
    /\ pre.entry = "execute"
    /\ pre.action_status = "APPROVED"
    /\ Len(calls) = 1
    /\ ByExecute(calls[1])

\* C2: the engine run that follows an approval leaves diagnosis and
\* proposed_action as they were, calls the gateway exactly once, for
\* restart_resource, and ends with action_status = EXECUTED.
C2_ResumeExecutes ==
    Finished("resume")
        => /\ ctx.diagnosis = pre.diagnosis
           /\ ctx.proposed_action = pre.proposed_action
           /\ Len(calls) = 1
           /\ calls[1].tool = "restart_resource"
           /\ ctx.action_status = "EXECUTED"

\* C3: diagnose_node or plan_node, run on a record whose action_status is
\* APPROVED, leaves diagnosis, proposed_action and action_status unchanged,
\* appends nothing to the log and calls neither the oracle nor the gateway.
C3_SkipOnApproval ==
    (/\ run = "node"
     /\ pc = "idle"
     /\ pre.entry \in {"diagnose", "plan"}
     /\ pre.action_status = "APPROVED"
     /\ pre.diagnosis.set
     /\ truthy(pre.proposed_action))
        => /\ ctx = context_of(pre)
           /\ messages = pre.messages
           /\ calls = <<>>
           /\ asks = 0

AllowedTransitions ==
    { <<"PENDING", "APPROVED">>, <<"PENDING", "REJECTED">>,
      <<"APPROVED", "EXECUTED">> }

\* A step taken on the record at hand: by a stage of the engine, or by the
\* driver approving or rejecting it (a new incident builds a new record).
OnSameRecord ==
    \/ pc # "idle"
    \/ pc' # "idle" /\ run' = "resume"
    \/ incident_active /\ ~incident_active' /\ app_state'

\* C4: on one record action_status only ever changes PENDING -> APPROVED,
\* PENDING -> REJECTED or APPROVED -> EXECUTED (so EXECUTED and REJECTED are
\* final).
C4_Transitions ==
    [][(OnSameRecord /\ ctx'.action_status # ctx.action_status)
          => <<ctx.action_status, ctx'.action_status>> \in AllowedTransitions]_vars

\* C5: when execute_node runs on an APPROVED record and its gateway call
\* fails, action_status stays APPROVED and exactly one entry, a failure
\* entry, is appended; EXECUTED is only reached after a successful call.
C5_GatewayFailure ==
    (/\ run = "node"
     /\ pc = "idle"
     /\ pre.entry = "execute"
     /\ pre.action_status = "APPROVED"
     /\ calls # <<>>
     /\ ~calls[1].up)
        => /\ ctx.action_status = "APPROVED"
           /\ messages = Append(pre.messages, messages[Len(messages)])
           /\ messages[Len(messages)].kind = "Failed"

Successes(log) == Cardinality({i \in 1..Len(log) : log[i].kind = "Success"})

\* C6: the full stage sequence, run on a record already EXECUTED, makes no
\* gateway call, adds no success entry and leaves action_status = EXECUTED.
C6_IdempotentExecuted ==
    (/\ Finished("engine")
     /\ pre.action_status = "EXECUTED"
     /\ pre.diagnosis.set
     /\ truthy(pre.proposed_action)
     /\ Successes(pre.messages) = 1)
        => /\ calls = <<>>
           /\ Successes(messages) = Successes(pre.messages)
           /\ ctx.action_status = "EXECUTED"

\* C7: action_status becomes APPROVED only in the driver's approve step, which
\* is taken only on a PENDING record with a proposed action; no stage of the
\* engine and no operator input writes it.
C7_OnlyDriverApproves ==
    [][(ctx'.action_status = "APPROVED" /\ ctx.action_status # "APPROVED")
          => /\ pc = "idle" /\ pc' = "diagnose" /\ run' = "resume"
             /\ ctx.action_status = "PENDING"
             /\ ctx.proposed_action.set
             /\ ctx.proposed_action.text # <<>>
             /\ op_count' = op_count
             /\ messages' = messages]_vars

\* The approve step has just been taken.
C7_Witness ==
    /\ run = "resume"
    /\ pc = "diagnose"
    /\ ctx.action_status = "APPROVED"
    /\ pre.action_status = "APPROVED"

\* C8: the first engine run on a fresh record, with the oracle answering,
\* returns with diagnosis and proposed_action set, action_status PENDING,
\* require_approval true, at least 2 log entries, and restart_resource not
\* invoked.
C8_FirstRun ==
    Finished("initial")
        => /\ ctx.diagnosis.set
           /\ ctx.proposed_action.set
           /\ ctx.action_status = "PENDING"
           /\ require_approval
           /\ Len(messages) >= 2
           /\ Restarts = {}

\* The first run has returned to the driver.
C8_Witness ==
    /\ Finished("initial")
    /\ pre.diagnosis = None
    /\ pre.messages = <<>>
    /\ asks = 2
    /\ op_count = 0

\* a is the letter b in either case (b a lower-case denylist character).
SameLetter(a, b) == a = b \/ a = upper_char(b)

\* text holds a denylisted token at some position, letter case aside.
Denylisted(text) ==
    \E k \in 1..Len(dangerous_keywords) :
        LET token == dangerous_keywords[k]
        IN  \E at \in 0..(Len(text) - Len(token)) :
                \A j \in 1..Len(token) : SameLetter(text[at + j], token[j])

\* C9: operator text is blocked exactly when it holds a denylist token in any
\* letter case; "check status" and "list services" are allowed.
C9_SafetyGuard ==
    (run = "guard" /\ pc = "idle")
        => /\ op_blocked <=> Denylisted(op_text)
           /\ op_text \in BenignTexts => ~op_blocked

\* A text with an upper-case letter inside a token has been blocked.
C9_Witness ==
    /\ run = "guard"
    /\ pc = "idle"
    /\ op_blocked
    /\ ~safety_guard_cased(op_text)

\* C10: handling one operator input calls neither the gateway nor the
\* oracle, does not start the engine and leaves the record alone; a blocked
\* input appends the operator's message and then the fixed rejection.
C10_OperatorChannel ==
    [][(op_count' = op_count + 1)
          => /\ calls' = calls
             /\ asks' = asks
             /\ pc' = "idle"
             /\ run' = run
             /\ ctx' = ctx
             /\ op_blocked'
                   => messages' = messages \o <<Msg("Operator", op_text'),
                                                AlertMsg>>]_vars

\* A blocked operator input has been handled on a planned incident.
C10_Witness ==
    /\ run \in {"initial", "resume"}
    /\ op_count > 0
    /\ op_blocked
    /\ Len(messages) >= 2
    /\ messages[Len(messages)] = AlertMsg
    /\ messages[Len(messages) - 1] = Msg("Operator", op_text)

\* C11: when the oracle call of diagnose_node or plan_node fails, the failure
\* leaves the engine (no later stage runs) and the stage has written nothing:
\* diagnosis, proposed_action, action_status, require_approval and the log
\* are as they were when the stage was entered.
C11_OracleFailureAtomic ==
    [][(pc \in {"diagnose", "plan"} /\ outcome' = "raised")
          => /\ pc' = "idle"
             /\ ctx' = ctx
             /\ chan' = chan
             /\ messages' = messages
             /\ require_approval' = require_approval]_vars

\* plan_node, called alone, raised after its status check.
C11_Witness ==
    /\ run = "node"
    /\ pre.entry = "plan"
    /\ pc = "idle"
    /\ outcome = "raised"
    /\ Len(calls) = 1
    /\ asks = 1

IsPrefix(a, b) == Len(a) <= Len(b) /\ SubSeq(b, 1, Len(a)) = a

\* A step that starts over: a new incident's first run, or a reset.
StartsAfresh ==
    /\ pc = "idle"
    /\ \/ run' = "none"
       \/ (pc' = "diagnose" /\ run' = "initial")

\* C12: on one incident the log only grows at its end: the log the driver
\* holds before a step is a prefix of the one it holds after, the log a stage
\* receives is a prefix of the one it returns, and an engine run starts from
\* the driver's log.
C12_AppendOnly ==
    [][~StartsAfresh
          => /\ IsPrefix(messages, messages')
             /\ (pc # "idle") => IsPrefix(chan.messages, chan'.messages)
             /\ (pc = "idle" /\ pc' = "diagnose") => chan'.messages = messages]_vars

\* An approved run has finished on a log that already held operator input.
C12_Witness ==
    /\ Finished("resume")
    /\ op_count > 0
    /\ Len(pre.messages) > 0
    /\ Len(messages) > Len(pre.messages)
    /\ IsPrefix(pre.messages, messages)

\* C13: the engine run started for a new incident gets a freshly built
\* record: action_status PENDING, diagnosis and proposed_action unset, an
\* empty log and require_approval false, whatever the session held before.
C13_FreshIncident ==
    [][(pc = "idle" /\ pc' = "diagnose" /\ run' = "initial")
          => /\ ctx' = [diagnosis |-> None, proposed_action |-> None,
                        action_status |-> "PENDING"]
             /\ chan' = [messages |-> <<>>, require_approval |-> FALSE]
             /\ messages' = <<>>
             /\ ~require_approval'
             /\ ~app_state'
             /\ calls' = <<>>]_vars

\* A new incident's run is starting after an incident that was planned
\* and had operator input.
C13_Witness ==
    /\ run = "initial"
    /\ pc = "diagnose"
    /\ op_text # <<>>
    /\ op_count = 0
    /\ ctx.diagnosis = None
    /\ chan.messages = <<>>

\* The driver's reject step, and the state it leaves: a record held by a
\* session whose incident is no longer active.
RejectStep == pc = "idle" /\ incident_active /\ ~incident_active' /\ app_state'

RejectedHeld == pc = "idle" /\ ~incident_active /\ app_state

\* C14: rejecting the plan sets action_status to REJECTED; after that the
\* engine is not invoked on the record and its action_status does not change.
C14_Rejection ==
    [][/\ RejectStep => ctx'.action_status = "REJECTED"
       /\ (RejectedHeld /\ ~StartsAfresh) => (ctx' = ctx /\ pc' = "idle")]_vars

\* The stage was called alone on the state pre and has returned.
NodeRan(stage) ==
    run = "node" /\ pre.entry = stage /\ pc = "idle" /\ outcome = "returned"

\* C15: execute_node alone on a PENDING record without a proposed action
\* appends exactly one "Execution Blocked" entry, leaves action_status,
\* diagnosis and proposed_action unchanged and makes no gateway call.
C15_BlockedExecute ==
    (/\ NodeRan("execute")
     /\ pre.action_status = "PENDING"
     /\ pre.proposed_action = None)
        => /\ messages = Append(pre.messages, BlockedMsg)
           /\ ctx = context_of(pre)
           /\ calls = <<>>

\* execute_node has refused a PENDING record without a proposed action.
C15_Witness ==
    /\ NodeRan("execute")
    /\ pre.action_status = "PENDING"
    /\ pre.proposed_action = None
    /\ Len(messages) = Len(pre.messages) + 1
    /\ messages[Len(messages)] = BlockedMsg

\* C16: execute_node on a record that is not APPROVED, whose last log entry
\* is already the blocked entry, appends nothing.
C16_BlockedDeduplicated ==
    (/\ NodeRan("execute")
     /\ pre.action_status # "APPROVED"
     /\ pre.messages # <<>>
     /\ pre.messages[Len(pre.messages)] = BlockedMsg)
        => messages = pre.messages

\* execute_node ran on an APPROVED record whose proposed action does not
\* name restart_resource; with text = FALSE the proposed action is None.
Unrecognized(text) ==
    /\ NodeRan("execute")
    /\ pre.action_status = "APPROVED"
    /\ pre.proposed_action.set = text
    /\ ~contains(pre.proposed_action.text, <<"restart_resource">>)

\* C17 as claimed: whenever the proposed action of an APPROVED record does
\* not name restart_resource, execute_node makes no gateway call, appends one
\* "unknown action" entry and leaves action_status = APPROVED.
C17_UnknownAction ==
    (Unrecognized(TRUE) \/ Unrecognized(FALSE))
        => /\ calls = <<>>
           /\ messages = Append(pre.messages, UnknownMsg)
           /\ ctx.action_status = "APPROVED"

\* C17 as amended: the "unknown action" entry is appended when the proposed
\* action is a text; when it is None the one entry appended is an
\* "Execution Failed" entry. Either way there is no gateway call and
\* action_status stays APPROVED.
C17_UnknownActionText ==
    /\ Unrecognized(TRUE)
          => /\ calls = <<>>
             /\ messages = Append(pre.messages, UnknownMsg)
             /\ ctx = context_of(pre)
    /\ Unrecognized(FALSE)
          => /\ calls = <<>>
             /\ Len(messages) = Len(pre.messages) + 1
             /\ IsPrefix(pre.messages, messages)
             /\ messages[Len(messages)].kind = "Failed"
             /\ ctx = context_of(pre)

\* execute_node has answered "unknown action" to an approved fetch proposal.
C17_Witness ==
    /\ Unrecognized(TRUE)
    /\ pre.proposed_action.text # <<>>
    /\ messages[Len(messages)] = UnknownMsg
    /\ ctx.action_status = "APPROVED"

\* C18: the one gateway call of plan_node is the read-only check_db_status
\* call on DB_SHARD_04; it never calls restart_resource, whatever the record
\* holds and whatever the oracle answers.
C18_PlanReadOnly ==
    [][(pc = "plan")
          => /\ Len(calls') = Len(calls) + 1
             /\ IsPrefix(calls, calls')
             /\ calls'[Len(calls')].node = "plan"
             /\ calls'[Len(calls')].tool = "check_db_status"
             /\ calls'[Len(calls')].arg = <<"DB_SHARD_04">>]_vars

\* plan_node has planned a restart on an APPROVED record with one status
\* check and nothing else.
C18_Witness ==
    /\ NodeRan("plan")
    /\ pre.action_status = "APPROVED"
    /\ contains(ctx.proposed_action.text, <<"restart_resource">>)
    /\ Len(calls) = 1
    /\ calls[1].tool = "check_db_status"

\* C19: an engine invocation whose calls return runs diagnose, plan and
\* execute, once each and in that order, and then ends: it gives control
\* back with require_approval = true instead of waiting for an approval.
C19_StageOrder ==
    /\ [][(run = "engine" /\ outcome' # "raised")
             => /\ (pc = "diagnose") => (pc' = "plan" /\ asks' = 1)
                /\ (pc = "plan") => (pc' = "execute" /\ asks' = 2)
                /\ (pc = "execute")
                      => /\ pc' = "idle"
                         /\ outcome' = "returned"
                         /\ asks' = 2
                         /\ require_approval']_vars
    /\ (run = "engine") ~> (pc = "idle")

\* An engine invocation on a PENDING record has come back to its caller.
C19_Witness ==
    /\ Finished("engine")
    /\ pre.action_status = "PENDING"
    /\ ~pre.require_approval
    /\ require_approval
    /\ asks = 2
    /\ ctx.action_status # "EXECUTED"

\* C20: when the status check of plan_node fails, plan_node still returns:
\* it asks the oracle, sets proposed_action, action_status = PENDING and
\* require_approval = true, and logs the plan followed by the gateway's error
\* text in place of the status.
C20_DegradedPlanning ==
    (NodeRan("plan") /\ Len(calls) = 1 /\ ~calls[1].up)
        => /\ asks = 1
           /\ ctx.proposed_action.set
           /\ ctx.action_status = "PENDING"
           /\ require_approval
           /\ messages = pre.messages \o
                  <<Msg("Proposed", ctx.proposed_action.text),
                    Msg("Status",
                        <<"MCP", "Client", "Error:", "check_db_status">>)>>

\* plan_node has planned on a failed status check.
C20_Witness ==
    /\ NodeRan("plan")
    /\ Len(calls) = 1
    /\ ~calls[1].up
    /\ truthy(ctx.proposed_action)
    /\ messages[Len(messages)].kind = "Status"

=============================================================================
